---- MODULE Spec2Model ----
(***************************************************************************)
(* GsshaPy card file transcoder: reading a line-oriented card file into an *)
(* ordered collection of card records, editing the records, and writing    *)
(* them back, with replacement parameters stored as negative target IDs.   *)
(* The Python package itself is not part of the documented sources; the    *)
(* behaviour is taken from the tutorials, the change log and the design    *)
(* description of the transcoder.                                          *)
(***************************************************************************)
EXTENDS Integers, Sequences, FiniteSets, TLC

\* ------------------------------------------------------------------ bounds
\* Longest file text (in lines) that is read.
MaxLines == 2

\* ------------------------------------------------------------ value domain
\* A value as it stands on a card line or in the value column of a card:
\*   none : the card has no value (Value=None)
\*   num  : a number, n
\*   word : a bare word, s
\*   path : a file name  dir + s + "." + e, q: written inside quotes
Val(t, n, s, dir, e, q) ==
    [t |-> t, n |-> n, s |-> s, dir |-> dir, e |-> e, q |-> q]
NoVal == Val("none", 0, "", "", "", FALSE)
Num(n) == Val("num", n, "", "", "", FALSE)
Word(w) == Val("word", 0, w, "", "", FALSE)
Path(q, dir, pre, ext) == Val("path", 0, pre, dir, ext, q)

\* A line of a file text.
CardLine(name, v) == [lt |-> "card", name |-> name, val |-> v]
BlankLine == [lt |-> "blank", name |-> "", val |-> NoVal]
CommentLine == [lt |-> "comment", name |-> "", val |-> NoVal]
\* A line that cannot be split into a card name and a value.
BadLine == [lt |-> "bad", name |-> "", val |-> NoVal]

\* --------------------------------------------------------- program tables
\* File kinds: project file, mapping table file, channel input file, and a
\* kind without replacement support (precipitation file).
FileKinds == {"prj", "cmt", "cif", "gag"}
\* The files that support replacement parameters.
SupportedKinds == {"prj", "cmt", "cif"}
\* Cards whose value is a count of items in the file.
CountCards == {"NUM_IDS"}
\* The TargetParams table of the project: target ID -> variable name.
TargetParams == (5 :> "roughness_param")
\* The name prefix of the project that is read, and the names it is written as.
ProjectName == "parkcity"
WriteNames == {"parkcity", "mymodel"}

\* The lines a file text is made of.
LineChoices ==
    { BlankLine, CommentLine, BadLine,
      CardLine("MAP_FREQ", Num(30)),
      CardLine("MAP_FREQ", Num(-5)),
      CardLine("MAP_FREQ", Num(-3)),
      CardLine("ROUGHNESS", Word("roughness_param")),
      CardLine("ROUGHNESS", Word("zz_param")),
      CardLine("NUM_IDS", Word("roughness_param")),
      CardLine("METRIC", NoVal),
      CardLine("WATERSHED_MASK", Path(TRUE, "", "parkcity", "msk")),
      CardLine("PRECIP_FILE", Path(FALSE, "/data/", "storm", "gag")) }

Texts == UNION { [1..n -> LineChoices] : n \in 0..MaxLines }

\* The value a user assigns to a card (MAP_FREQ 30 is set to 10).
EditValues == { Num(10) }

\* ------------------------------------------------------------------ state
VARIABLES
    kind,       \* the kind of the file
    text,       \* the text of the file in the read directory
    pc,         \* "unparsed", "parsed" or "serialized"
    err,        \* TRUE when read or write raised an error to the caller
    rpf,        \* TRUE when a ReplaceParamFile was passed to read
    cards,      \* the ordered card records of the file
    refs,       \* ids of the cards whose value read replaced by a target
    edited,     \* ids of the cards whose value was reassigned
    dbFiles,    \* the files named by cards that were read into the database
    warnings,   \* the warnings logged so far
    wrpf,       \* TRUE when a ReplaceParamFile was passed to write
    outName,    \* the name passed to write
    out,        \* the text written
    written,    \* the files named by cards that were written
    reread,     \* TRUE when the written text has been read again
    cards2,     \* the card records read from the written text
    spatial,    \* the spatial arguments of a project read and the ID used
    field,      \* the text field of a GenericFile
    raw,        \* a line of a file as it stands in the file, in chunks
    split,      \* the card name and value the line was split into
    rpFile,     \* "none", or "read" once the ReplaceParamFile has been read
    table,      \* the rows of the project card table of the database
    got,        \* the result of the last getCard()
    deleted,    \* ids of the cards that were deleted
    out2        \* the text of a second write of the same records

\* The state of the database session and of the splitting of one line.
sessionVars == << raw, split, rpFile, table, got, deleted, out2 >>

vars == << kind, text, pc, err, rpf, cards, refs, edited, dbFiles, warnings,
           wrpf, outName, out, written, reread, cards2, spatial, field,
           raw, split, rpFile, table, got, deleted, out2 >>

\* ------------------------------------------------------------------- read
\* The cards of the project file whose name begins with '#'.
HashCards == {"#LandSoil", "#PROJECTION_FILE"}

\* A read that takes a line whose name begins with '#' for a comment.
IsCardNoHash(l) == l.lt = "card" /\ l.name \notin HashCards

\* TRUE for a line that holds a card.
IsCard(l) == l.lt = "card"
\* A read that makes a card of a comment line too.
IsCardOrComment(l) == l.lt \in {"card", "comment"}
CardLinesWithComments(t) == SelectSeq(t, IsCardOrComment)

\* The card lines of a text: blank and comment lines give no card.
CardLines(t) == SelectSeq(t, IsCard)
\* A read that also fails on a word that is no variable name of a target.
HasBadLineOrUnknownName(t) ==
    \E i \in 1..Len(t) :
        \/ t[i].lt = "bad"
        \/ /\ t[i].lt = "card" /\ t[i].val.t = "word"
           /\ \A id \in DOMAIN TargetParams : TargetParams[id] # t[i].val.s

HasBadLine(t) == \E i \in 1..Len(t) : t[i].lt = "bad"

\* The ID of the target whose variable name is w, 0 when there is none.
TargetId(w) ==
    IF \E i \in DOMAIN TargetParams : TargetParams[i] = w
    THEN CHOOSE i \in DOMAIN TargetParams : TargetParams[i] = w
    ELSE 0

\* Replacement applied to the files of every kind.
ReplaceableAnyKind(k, name) == name \notin CountCards

\* Replacement that does not leave out the counts.
ReplaceableAnyCard(k, name) == k \in SupportedKinds

\* Replacement applies to string and numeric parameters of the supported
\* files, never to a count.
Replaceable(k, name) == k \in SupportedKinds /\ name \notin CountCards

\* A read that replaces every word, known as a target or not.
SubstitutesAnyWord(k, name, v, useRpf) ==
    useRpf /\ Replaceable(k, name) /\ v.t = "word"

\* A read that replaces target names without a ReplaceParamFile.
SubstitutesNoTable(k, name, v, useRpf) ==
    Replaceable(k, name) /\ v.t = "word" /\ TargetId(v.s) # 0

\* TRUE when read stores the negative target ID for the value v.
Substitutes(k, name, v, useRpf) ==
    useRpf /\ Replaceable(k, name) /\ v.t = "word" /\ TargetId(v.s) # 0

\* Paths are stored as relative paths.
StoreRelative(v) == IF v.t = "path" THEN [v EXCEPT !.dir = ""] ELSE v

\* A read that stores file names without their quotes.
ReadValueUnquoted(k, name, v, useRpf) ==
    IF Substitutes(k, name, v, useRpf)
    THEN Num(0 - TargetId(v.s))
    ELSE IF v.t = "path" THEN [StoreRelative(v) EXCEPT !.q = FALSE] ELSE v

\* A read that stores the target ID itself instead of its opposite.
ReadValuePositiveId(k, name, v, useRpf) ==
    IF Substitutes(k, name, v, useRpf)
    THEN Num(TargetId(v.s))
    ELSE StoreRelative(v)

\* The value stored for the value v of a card line.
ReadValue(k, name, v, useRpf) ==
    IF Substitutes(k, name, v, useRpf)
    THEN Num(0 - TargetId(v.s))
    ELSE StoreRelative(v)

\* The ordered card records of a text.
ParseCards(t, k, useRpf) ==
    LET ls == CardLines(t)
    IN  [j \in 1..Len(ls) |->
            [id |-> j, name |-> ls[j].name,
             val |-> ReadValue(k, ls[j].name, ls[j].val, useRpf)]]

\* The file a path value names.
FileOf(v) == << v.s, v.e >>
\* The files named by the cards cs.
Referenced(cs) == { FileOf(cs[j].val) : j \in {i \in 1..Len(cs) : cs[i].val.t = "path"} }

\* The warnings read logs for a text.
ParseWarnings(t, k, useRpf, present) ==
    LET ls == CardLines(t)
        J == 1..Len(ls)
    IN  { "UnresolvedReplacementName" : j \in
            { i \in J : useRpf /\ Replaceable(k, ls[i].name)
                        /\ ls[i].val.t = "word" /\ TargetId(ls[i].val.s) = 0 } }
        \cup
        { "UnsupportedReplacementContext" : j \in
            { i \in J : useRpf /\ k \in SupportedKinds /\ ls[i].name \in CountCards
                        /\ ls[i].val.t = "word" /\ TargetId(ls[i].val.s) # 0 } }
        \cup
        { "MissingReferencedFile" : j \in
            { i \in J : ls[i].val.t = "path" /\ FileOf(ls[i].val) \notin present } }

\* The spatial arguments of a read that is not a project read with spatial
\* objects.
NoSpatial ==
    [on |-> FALSE, given |-> 0, pro |-> FALSE, lookup |-> 0, srid |-> 0,
     warned |-> FALSE]

\* The result of splitting before a line is split, and of getCard() before
\* a card is asked for.
NoSplit == [lt |-> "", name |-> "", none |-> TRUE, value |-> << >>]
NoCard == [file |-> 0, found |-> FALSE, key |-> 0, projectFileID |-> 0, name |-> ""]

\* No line is being split and no database session is open.
NoSession ==
    /\ raw = << >>
    /\ split = NoSplit
    /\ rpFile = "none"
    /\ table = << >>
    /\ got = NoCard
    /\ deleted = {}
    /\ out2 = << >>

Init ==
    /\ kind \in FileKinds
    /\ text \in Texts
    /\ pc = "unparsed"
    /\ err = FALSE
    /\ rpf = FALSE
    /\ cards = << >>
    /\ refs = {}
    /\ edited = {}
    /\ dbFiles = {}
    /\ warnings = {}
    /\ wrpf = FALSE
    /\ outName = ""
    /\ out = << >>
    /\ written = {}
    /\ reread = FALSE
    /\ cards2 = << >>
    /\ spatial = NoSpatial
    /\ field = << >>
    /\ NoSession

\* A read that raises an error on a file that does not exist.
ReadFileOutcomeCrash(f, present) == IF f \in present THEN "read" ELSE "error"

\* The outcome of reading the file f named by a card: "read", or "skipped"
\* (with a warning) when the file does not exist.
ReadFileOutcome(f, present) == IF f \in present THEN "read" ELSE "skipped"

\* A read that is suspended when it logged a warning.
StateAfterReadSuspended(ws) == IF ws = {} THEN "parsed" ELSE "suspended"

\* The state of the record set after a read that logged the warnings ws.
StateAfterRead(ws) == "parsed"

\* read(): an unparsable line is an error raised to the caller and nothing
\* is recorded; otherwise every card line becomes a card record, the files
\* named by cards are read when they exist and skipped with a warning when
\* they do not.
Read(useRpf, present) ==
    /\ pc = "unparsed"
    /\ ~err
    /\ LET cs == ParseCards(text, kind, useRpf)
           ls == CardLines(text)
           fs == Referenced(cs)
       IN  /\ present \subseteq fs
           /\ IF HasBadLine(text)
                 \/ \E f \in fs : ReadFileOutcome(f, present) = "error"
              THEN /\ err' = TRUE
                   /\ UNCHANGED << pc, rpf, cards, refs, dbFiles, warnings >>
              ELSE /\ cards' = cs
                   /\ refs' = { j \in 1..Len(ls) :
                                  Substitutes(kind, ls[j].name, ls[j].val, useRpf) }
                   /\ dbFiles' = { f \in fs : ReadFileOutcome(f, present) = "read" }
                   /\ warnings' = ParseWarnings(text, kind, useRpf, present)
                   /\ rpf' = useRpf
                   /\ pc' = StateAfterRead(ParseWarnings(text, kind, useRpf, present))
                   /\ err' = FALSE
    /\ UNCHANGED << kind, text, edited, wrpf, outName, out, written, reread, cards2 >>

\* read() of one file, the caller passing the ReplaceParamFile or not.
Parse(useRpf, present) ==
    /\ kind \in FileKinds
    /\ Read(useRpf, present)
    /\ UNCHANGED << spatial, field >>
    /\ UNCHANGED sessionVars

\* The files of the project in the read directory.
AllFiles == { <<"parkcity", "msk">>, <<"storm", "gag">> }

\* ------------------------------------------------------------------- edit
\* An update that reaches every card with the name of the card edited.
SetValueByName(cs, id, v) ==
    LET names == { cs[i].name : i \in { h \in 1..Len(cs) : cs[h].id = id } }
    IN  [j \in 1..Len(cs) |->
            IF cs[j].name \in names THEN [cs[j] EXCEPT !.val = v] ELSE cs[j]]

\* card.value = v on the card with the given id: only that record changes.
SetValue(cs, id, v) ==
    [j \in 1..Len(cs) |-> IF cs[j].id = id THEN [cs[j] EXCEPT !.val = v] ELSE cs[j]]

\* The user reassigns the value of one card of a file that has been read.
Edit(id, v) ==
    /\ pc = "parsed"
    /\ ~err
    /\ \E j \in 1..Len(cards) : cards[j].id = id
    /\ cards' = SetValue(cards, id, v)
    /\ edited' = edited \cup {id}
    /\ UNCHANGED << kind, text, pc, err, rpf, refs, dbFiles, warnings, wrpf,
                    outName, out, written, reread, cards2, spatial, field >>
    /\ UNCHANGED sessionVars

\* ------------------------------------------------------------------ write
\* TRUE when the stored value v is a negative integer.
IsNegative(v) == v.t = "num" /\ v.n < 0

\* A write that resolves negative integers without a ReplaceParamFile.
WriteValueAlways(k, name, v, useRpf) ==
    IF Replaceable(k, name) /\ IsNegative(v) /\ (0 - v.n) \in DOMAIN TargetParams
    THEN Word(TargetParams[0 - v.n])
    ELSE v

\* A write that drops a negative integer that is the ID of no target.
WriteValueDropUnresolved(k, name, v, useRpf) ==
    IF useRpf /\ Replaceable(k, name) /\ IsNegative(v)
    THEN IF (0 - v.n) \in DOMAIN TargetParams
         THEN Word(TargetParams[0 - v.n])
         ELSE NoVal
    ELSE v

\* The value written for a stored value: with a ReplaceParamFile a negative
\* integer is written as the variable name of the target with that ID, and
\* as the number itself when there is no such target.
WriteValue(k, name, v, useRpf) ==
    IF useRpf /\ Replaceable(k, name) /\ IsNegative(v) /\ (0 - v.n) \in DOMAIN TargetParams
    THEN Word(TargetParams[0 - v.n])
    ELSE v

\* A write that gives the new name to every path, whatever its prefix.
RenameAll(v, old, new) == IF v.t = "path" THEN [v EXCEPT !.s = new] ELSE v

\* A write that keeps the prefix a path was read with.
RenameKeep(v, old, new) == v

\* A path with the prefix of the project is written with the new name.
Rename(v, old, new) ==
    IF v.t = "path" /\ v.s = old THEN [v EXCEPT !.s = new] ELSE v

\* The line written for one card.
WriteLine(k, c, useRpf, new) ==
    CardLine(c.name, Rename(WriteValue(k, c.name, c.val, useRpf), ProjectName, new))

\* A write that leaves every stored value as it is.
SerializeCardsRaw(cs, k, useRpf, new) ==
    [j \in 1..Len(cs) |-> WriteLine(k, cs[j], FALSE, new)]

\* The text written for the card records cs, one line per card, in order.
SerializeCards(cs, k, useRpf, new) ==
    [j \in 1..Len(cs) |-> WriteLine(k, cs[j], useRpf, new)]

\* A write that keeps the name of every file.
RenameFileKeep(f, new) == f

\* A write that stores the values it writes in the card records.
CardsAfterWriteResolved(cs, k, useRpf, new) ==
    [j \in 1..Len(cs) |-> [cs[j] EXCEPT !.val = WriteLine(k, cs[j], useRpf, new).val]]

\* The card records after a write: the write changes none of them.
CardsAfterWrite(cs, k, useRpf, new) == cs

\* The name a file of the project is written under.
RenameFile(f, new) == IF f[1] = ProjectName THEN << new, f[2] >> ELSE f

\* The warnings write logs.
WriteWarnings(cs, k, useRpf, db) ==
    LET J == 1..Len(cs)
    IN  { "UnresolvedReplacementReference" : j \in
            { i \in J : useRpf /\ Replaceable(k, cs[i].name) /\ IsNegative(cs[i].val)
                        /\ (0 - cs[i].val.n) \notin DOMAIN TargetParams } }
        \cup
        { "MissingFileOnWrite" : j \in
            { i \in J : cs[i].val.t = "path" /\ FileOf(cs[i].val) \notin db } }

\* A write that raises an error on a file that is not in the database.
WriteFileOutcomeCrash(f, db) == IF f \in db THEN "written" ELSE "error"

\* The outcome of writing the file f named by a card: "written", or
\* "skipped" (with a warning) when the file is not in the database.
WriteFileOutcome(f, db) == IF f \in db THEN "written" ELSE "skipped"

\* write(): the cards are written in order, then each file named by a card
\* is written under the new name when it is in the database and skipped
\* with a warning when it is not.
WriteCards(new, useRpf) ==
    /\ pc = "parsed"
    /\ ~err
    /\ LET fs == Referenced(cards)
       IN  IF \E f \in fs : WriteFileOutcome(f, dbFiles) = "error"
           THEN /\ err' = TRUE
                /\ UNCHANGED << pc, cards, warnings, wrpf, outName, out, written >>
           ELSE /\ out' = SerializeCards(cards, kind, useRpf, new)
                /\ cards' = CardsAfterWrite(cards, kind, useRpf, new)
                /\ written' = { RenameFile(f, new) :
                                  f \in { g \in fs : WriteFileOutcome(g, dbFiles) = "written" } }
                /\ warnings' = warnings \cup WriteWarnings(cards, kind, useRpf, dbFiles)
                /\ wrpf' = useRpf
                /\ outName' = new
                /\ pc' = "serialized"
                /\ err' = FALSE
    /\ UNCHANGED << kind, text, rpf, refs, edited, dbFiles, reread, cards2 >>

\* write() of one file, the caller passing the ReplaceParamFile or not.
Write(new, useRpf) ==
    /\ kind \in FileKinds
    /\ WriteCards(new, useRpf)
    /\ UNCHANGED << spatial, field >>
    /\ UNCHANGED sessionVars

\* The written text is read again, with the ReplaceParamFile of the first read.
Reparse ==
    /\ pc = "serialized"
    /\ ~err
    /\ ~reread
    /\ reread' = TRUE
    /\ cards2' = ParseCards(out, kind, rpf)
    /\ UNCHANGED << kind, text, pc, err, rpf, cards, refs, edited, dbFiles,
                    warnings, wrpf, outName, out, written, spatial, field >>
    /\ UNCHANGED sessionVars

Next ==
    \/ \E useRpf \in BOOLEAN, present \in SUBSET AllFiles : Parse(useRpf, present)
    \/ \E id \in 1..MaxLines, v \in EditValues : Edit(id, v)
    \/ \E new \in WriteNames, useRpf \in BOOLEAN : Write(new, useRpf)
    \/ Reparse

Spec == Init /\ [][Next]_vars

\* ---------------------------------------------------------- project level
\* Longest project file text (in lines) that readProject reads.
MaxProjectLines == 3

\* The project file cards that name the replacement files.
ReplaceCards == {"REPLACE_PARAMS", "REPLACE_VALS"}

\* The lines a project file text is made of.
ProjectLineChoices ==
    { CardLine("REPLACE_PARAMS", Path(TRUE, "", "replace_param", "in")),
      CardLine("REPLACE_VALS", Path(TRUE, "", "replace_val", "in")),
      CardLine("ROUGHNESS", Word("roughness_param")),
      CardLine("WATERSHED_MASK", Path(TRUE, "", "parkcity", "msk")),
      CardLine("#LandSoil", Path(TRUE, "", "parkcity", "lsf")),
      CardLine("PRECIP_FILE", Path(FALSE, "/data/", "storm", "gag")) }

ProjectTexts == UNION { [1..n -> ProjectLineChoices] : n \in 0..MaxProjectLines }

\* The files of the project in the read directory, replacement files included.
AllProjectFiles ==
    AllFiles \cup { <<"replace_param", "in">>, <<"replace_val", "in">>,
                    <<"parkcity", "lsf">> }

\* The spatial reference ID used when none is passed and none is found.
DefaultSrid == 4236
\* The IDs a caller passes (0: none) and the IDs the lookup of the
\* projection file returns (0: none found).
GivenSrids == {0, 26912}
LookupSrids == {0, 32612}

\* A detection that never reads or writes with replacement parameters.
HasReplaceCardsNever(rs) == FALSE

\* TRUE when the records rs (card lines or card records) hold the
\* replacement cards.
HasReplaceCards(rs) ==
    \A n \in ReplaceCards : \E i \in 1..Len(rs) : rs[i].name = n

\* A choice of the ID that prefers the lookup to the ID the caller passes.
SpatialReferenceIdLookupFirst(given, pro, lookup) ==
    IF pro /\ lookup # 0 THEN lookup
    ELSE IF given # 0 THEN given
    ELSE DefaultSrid

\* The spatial reference ID of a read with spatial objects: the ID passed,
\* else the ID looked up from the projection file, else the default.
SpatialReferenceId(given, pro, lookup) ==
    IF given # 0 THEN given
    ELSE IF pro /\ lookup # 0 THEN lookup
    ELSE DefaultSrid

\* TRUE when the default ID is used, which is logged as a warning.
UsesDefaultSrid(given, pro, lookup) == given = 0 /\ ~(pro /\ lookup # 0)

\* readProject(): the project file is read, with replacement parameters when
\* it holds the replacement cards, then the files its cards name; with
\* spatial objects the spatial reference ID is determined.
ReadProject(present, on, given, pro, lookup) ==
    /\ kind = "prj"
    /\ \A i \in 1..Len(text) :
          text[i].name \in ReplaceCards => FileOf(text[i].val) \in present
    /\ Read(HasReplaceCards(CardLines(text)), present)
    /\ spatial' =
          IF on
          THEN [on |-> TRUE, given |-> given, pro |-> pro, lookup |-> lookup,
                srid |-> SpatialReferenceId(given, pro, lookup),
                warned |-> UsesDefaultSrid(given, pro, lookup)]
          ELSE NoSpatial
    /\ UNCHANGED field
    /\ UNCHANGED sessionVars

\* writeProject(): the project file and the files read are written under
\* the new name, with replacement parameters when the project file holds
\* the replacement cards.
WriteProject(new) ==
    /\ kind = "prj"
    /\ WriteCards(new, HasReplaceCards(cards))
    /\ UNCHANGED << spatial, field >>
    /\ UNCHANGED sessionVars

\* Kinds of the files handled by GenericFile.
GenericKinds == {"gen"}

\* A read that keeps the card lines of the file only.
GenericContentsCardLines(t) == CardLines(t)

\* The text field of a GenericFile: the entire contents of the file.
GenericContents(t) == t

\* GenericFile.read(): the contents go into one text field.
GenericRead ==
    /\ kind \in GenericKinds
    /\ pc = "unparsed"
    /\ field' = GenericContents(text)
    /\ pc' = "parsed"
    /\ UNCHANGED << kind, text, err, rpf, cards, refs, edited, dbFiles, warnings,
                    wrpf, outName, out, written, reread, cards2, spatial >>
    /\ UNCHANGED sessionVars

\* GenericFile.write(): the text field is written.
GenericWrite(new) ==
    /\ kind \in GenericKinds
    /\ pc = "parsed"
    /\ out' = field
    /\ outName' = new
    /\ pc' = "serialized"
    /\ UNCHANGED << kind, text, err, rpf, cards, refs, edited, dbFiles, warnings,
                    wrpf, written, reread, cards2, spatial, field >>
    /\ UNCHANGED sessionVars

InitProject ==
    /\ kind \in {"prj"} \cup GenericKinds
    /\ text \in IF kind = "prj" THEN ProjectTexts ELSE Texts
    /\ pc = "unparsed"
    /\ err = FALSE
    /\ rpf = FALSE
    /\ cards = << >>
    /\ refs = {}
    /\ edited = {}
    /\ dbFiles = {}
    /\ warnings = {}
    /\ wrpf = FALSE
    /\ outName = ""
    /\ out = << >>
    /\ written = {}
    /\ reread = FALSE
    /\ cards2 = << >>
    /\ spatial = NoSpatial
    /\ field = << >>
    /\ NoSession

NextProject ==
    \/ \E present \in SUBSET (AllProjectFiles \cap Referenced(CardLines(text))),
          on \in BOOLEAN, given \in GivenSrids, pro \in BOOLEAN,
          lookup \in LookupSrids :
          ReadProject(present, on, given, pro, lookup)
    \/ \E new \in WriteNames : WriteProject(new)
    \/ GenericRead
    \/ \E new \in WriteNames : GenericWrite(new)

SpecProject == InitProject /\ [][NextProject]_vars

\* --------------------------------------------------------- session level
\* Longest text (in lines) of the project file read in a database session.
MaxCards == 3

\* The lines of the project file read in a session.
SessionLineChoices ==
    { CardLine("MAP_FREQ", Num(30)),
      CardLine("METRIC", NoVal),
      CardLine("ROUGHNESS", Word("roughness_param")),
      CardLine("WATERSHED_MASK", Path(TRUE, "", "parkcity", "msk")) }

SessionTexts == UNION { [1..n -> SessionLineChoices] : n \in 0..MaxCards }

\* The project file records of the database: a project read earlier and
\* the project file read in this session.
OtherFile == 1
ThisFile == 2
ProjectFileIds == {OtherFile, ThisFile}

\* The rows of the project card table before the read: the cards of the
\* project read earlier. A row holds the key of the card, the key of its
\* project file, the position of its line and its name; its value is kept
\* in the card record.
OtherRows ==
    << [key |-> 1, projectFileID |-> OtherFile, cardId |-> 1, name |-> "MAP_FREQ"],
       [key |-> 2, projectFileID |-> OtherFile, cardId |-> 2, name |-> "METRIC"] >>

\* The key given to the next row of the table.
NextKey(tbl) == IF tbl = << >> THEN 1 ELSE tbl[Len(tbl)].key + 1

\* The table after the cards cs of the project file f are added.
InsertRows(tbl, f, cs) ==
    tbl \o [j \in 1..Len(cs) |->
              [key |-> NextKey(tbl) + j - 1, projectFileID |-> f,
               cardId |-> cs[j].id, name |-> cs[j].name]]

\* projectFile.projectCards: the rows of the project file f, in order.
ProjectCards(tbl, f) == SelectSeq(tbl, LAMBDA r : r.projectFileID = f)

\* The first row of rs with the given name, as the result of getCard() on
\* the project file f.
FirstNamed(rs, f, name) ==
    LET J == { j \in 1..Len(rs) : rs[j].name = name }
    IN  IF J = {}
        THEN [NoCard EXCEPT !.file = f]
        ELSE LET j == CHOOSE h \in J : \A g \in J : h <= g
             IN  [file |-> f, found |-> TRUE, key |-> rs[j].key,
                  projectFileID |-> rs[j].projectFileID, name |-> name]

\* A getCard() that looks for the name among the cards of every file.
GetCardAnyFile(tbl, f, name) == FirstNamed(tbl, f, name)

\* projectFile.getCard(name): the card of the project file f with the name.
GetCard(tbl, f, name) == FirstNamed(ProjectCards(tbl, f), f, name)

\* A caller that passes a ReplaceParamFile that was not read.
CanPassUnread(useRpf, file) == TRUE

\* A ReplaceParamFile can be passed once it was created and read.
CanPass(useRpf, file) == useRpf => file = "read"

\* A delete that removes every card with the name of the card deleted.
RemoveCardByName(cs, id) ==
    LET names == { cs[i].name : i \in { h \in 1..Len(cs) : cs[h].id = id } }
    IN  SelectSeq(cs, LAMBDA c : c.name \notin names)

\* The card collection without the card with the given id.
RemoveCard(cs, id) == SelectSeq(cs, LAMBDA c : c.id # id)

\* replaceParamFile.read(): the replacement parameters file of the project
\* is read.
ReadReplaceParamFile ==
    /\ rpFile = "none"
    /\ rpFile' = "read"
    /\ UNCHANGED << kind, text, pc, err, rpf, cards, refs, edited, dbFiles,
                    warnings, wrpf, outName, out, written, reread, cards2,
                    spatial, field, raw, split, table, got, deleted, out2 >>

\* read() in a session: the cards are added to the project card table.
SessionRead(useRpf) ==
    /\ CanPass(useRpf, rpFile)
    /\ Read(useRpf, AllFiles \cap Referenced(CardLines(text)))
    /\ table' = InsertRows(table, ThisFile, cards')
    /\ UNCHANGED << spatial, field, raw, split, rpFile, got, deleted, out2 >>

\* projectFile.getCard(name) on one of the project files.
GetCardOf(f, name) ==
    /\ pc = "parsed"
    /\ got' = GetCard(table, f, name)
    /\ UNCHANGED << kind, text, pc, err, rpf, cards, refs, edited, dbFiles,
                    warnings, wrpf, outName, out, written, reread, cards2,
                    spatial, field, raw, split, rpFile, table, deleted, out2 >>

\* session.delete(card) on a card of the project file read.
Delete(id) ==
    /\ pc = "parsed"
    /\ \E j \in 1..Len(cards) : cards[j].id = id
    /\ cards' = RemoveCard(cards, id)
    /\ table' = SelectSeq(table,
                   LAMBDA r : ~(r.projectFileID = ThisFile /\ r.cardId = id))
    /\ deleted' = deleted \cup {id}
    /\ UNCHANGED << kind, text, pc, err, rpf, refs, edited, dbFiles, warnings,
                    wrpf, outName, out, written, reread, cards2, spatial,
                    field, raw, split, rpFile, got, out2 >>

\* write() in a session.
SessionWrite(new, useRpf) ==
    /\ CanPass(useRpf, rpFile)
    /\ WriteCards(new, useRpf)
    /\ UNCHANGED << spatial, field >>
    /\ UNCHANGED sessionVars

\* write() of the same records again, with the same ReplaceParamFile and
\* the same name.
WriteAgain ==
    /\ pc = "serialized"
    /\ ~err
    /\ out2' = SerializeCards(cards, kind, wrpf, outName)
    /\ UNCHANGED << kind, text, pc, err, rpf, cards, refs, edited, dbFiles,
                    warnings, wrpf, outName, out, written, reread, cards2,
                    spatial, field, raw, split, rpFile, table, got, deleted >>

InitSession ==
    /\ kind = "prj"
    /\ text \in SessionTexts
    /\ pc = "unparsed"
    /\ err = FALSE
    /\ rpf = FALSE
    /\ cards = << >>
    /\ refs = {}
    /\ edited = {}
    /\ dbFiles = {}
    /\ warnings = {}
    /\ wrpf = FALSE
    /\ outName = ""
    /\ out = << >>
    /\ written = {}
    /\ reread = FALSE
    /\ cards2 = << >>
    /\ spatial = NoSpatial
    /\ field = << >>
    /\ raw = << >>
    /\ split = NoSplit
    /\ rpFile = "none"
    /\ table = OtherRows
    /\ got = NoCard
    /\ deleted = {}
    /\ out2 = << >>

NextSession ==
    \/ ReadReplaceParamFile
    \/ \E useRpf \in BOOLEAN : SessionRead(useRpf)
    \/ \E f \in ProjectFileIds, name \in {"MAP_FREQ", "METRIC"} : GetCardOf(f, name)
    \/ \E id \in 1..MaxCards : Delete(id)
    \/ \E new \in WriteNames, useRpf \in BOOLEAN : SessionWrite(new, useRpf)
    \/ WriteAgain

SpecSession == InitSession /\ [][NextSession]_vars

\* ------------------------------------------------------------ line level
\* Most tokens on a line that is split.
MaxTokens == 3

\* A line as it stands in the file: tokens separated by runs of spaces. A
\* token holds no space; its quote characters are part of it.
Tokens == { "WMS", "9.1", "\"parkcity.msk\"", "#LandSoil" }
Spaces == { " ", "  " }

\* The lines of n tokens: token, spaces, token, ..., token.
RECURSIVE TokenLines(_)
TokenLines(n) ==
    IF n = 1
    THEN { << t >> : t \in Tokens }
    ELSE { l \o << sp, t >> : l \in TokenLines(n - 1), sp \in Spaces, t \in Tokens }

RawLines ==
    { << >> } \cup { << sp >> : sp \in Spaces }
    \cup UNION { TokenLines(n) : n \in 1..MaxTokens }

\* The line without the spaces at its start.
RECURSIVE StripLeft(_)
StripLeft(l) ==
    IF l # << >> /\ Head(l) \in Spaces THEN StripLeft(Tail(l)) ELSE l

\* A split that takes the second token of the line alone as the value.
ExtractCardSecondToken(l) ==
    LET s == StripLeft(l)
    IN  IF s = << >>
        THEN [lt |-> "blank", name |-> "", none |-> TRUE, value |-> << >>]
        ELSE [lt |-> "card", name |-> Head(s), none |-> Len(s) < 3,
              value |-> IF Len(s) < 3 THEN << >> ELSE << s[3] >>]

\* The split of a line: a line of spaces alone is blank; otherwise the
\* leading token is the card name and what follows the spaces after it is
\* the value, none when nothing follows.
ExtractCard(l) ==
    LET s == StripLeft(l)
    IN  IF s = << >>
        THEN [lt |-> "blank", name |-> "", none |-> TRUE, value |-> << >>]
        ELSE [lt |-> "card", name |-> Head(s), none |-> Len(s) < 3,
              value |-> IF Len(s) < 3 THEN << >> ELSE SubSeq(s, 3, Len(s))]

\* One line is split.
SplitLine ==
    /\ split = NoSplit
    /\ split' = ExtractCard(raw)
    /\ UNCHANGED << kind, text, pc, err, rpf, cards, refs, edited, dbFiles,
                    warnings, wrpf, outName, out, written, reread, cards2,
                    spatial, field, raw, rpFile, table, got, deleted, out2 >>

InitLines ==
    /\ kind = "prj"
    /\ text = << >>
    /\ pc = "unparsed"
    /\ err = FALSE
    /\ rpf = FALSE
    /\ cards = << >>
    /\ refs = {}
    /\ edited = {}
    /\ dbFiles = {}
    /\ warnings = {}
    /\ wrpf = FALSE
    /\ outName = ""
    /\ out = << >>
    /\ written = {}
    /\ reread = FALSE
    /\ cards2 = << >>
    /\ spatial = NoSpatial
    /\ field = << >>
    /\ raw \in RawLines
    /\ split = NoSplit
    /\ rpFile = "none"
    /\ table = << >>
    /\ got = NoCard
    /\ deleted = {}
    /\ out2 = << >>

NextLines == SplitLine

SpecLines == InitLines /\ [][NextLines]_vars

\* ------------------------------------------------------------- properties
\* The card line a card record was read from.
OrigLine(c) == CardLines(text)[c.id]
\* TRUE when the card line of c holds the variable name of a known target.
NamesTarget(c) == OrigLine(c).val.t = "word" /\ TargetId(OrigLine(c).val.s) # 0
\* The card records that were not reassigned since the read.
Unedited == { j \in 1..Len(cards) : cards[j].id \notin edited }
\* The file was read, written unchanged under its own name with the same
\* ReplaceParamFile, and the written text was read again.
RoundTripDone == reread /\ edited = {} /\ outName = ProjectName /\ wrpf = rpf

\* C1: reading a text, writing the records unchanged (same ReplaceParamFile,
\* same name) and reading the written text again gives the same ordered card
\* records as the first read: same names, same values, same order.
RoundTripIdempotent == RoundTripDone => cards2 = cards

\* A round trip over a file with a replaced card and a literal negative number.
RoundTripWitness ==
    /\ RoundTripDone
    /\ rpf
    /\ refs # {}
    /\ \E j \in 1..Len(cards) : IsNegative(cards[j].val) /\ cards[j].id \notin refs

\* C2: in a supported file read and written with the ReplaceParamFile, the
\* line written for a card whose value named a known target holds that
\* variable name again, not the negative integer.
ReferenceTokenRestored ==
    (pc = "serialized" /\ rpf /\ wrpf /\ kind \in SupportedKinds) =>
        \A j \in Unedited :
            NamesTarget(cards[j]) =>
                /\ out[j].name = OrigLine(cards[j]).name
                /\ out[j].val = OrigLine(cards[j]).val

\* A replaced card (stored as a negative integer) has been written.
ReferenceTokenWitness ==
    /\ pc = "serialized" /\ rpf /\ wrpf /\ kind \in SupportedKinds
    /\ \E j \in Unedited :
          NamesTarget(cards[j]) /\ cards[j].id \in refs /\ IsNegative(cards[j].val)

\* C3: for every card of a supported file the stored value is negative if
\* and only if the card represents a replacement reference (read replaced
\* its value by a target); a value is never both a literal and a reference.
SignInvariant ==
    (pc # "unparsed" /\ rpf /\ kind \in SupportedKinds) =>
        \A j \in Unedited : IsNegative(cards[j].val) <=> cards[j].id \in refs

\* C4: a card whose value is a count never holds a placeholder: read does
\* not replace its value, the literal value of the line is stored, and the
\* attempt to replace it is logged as a warning.
CountCardsKeepLiteral ==
    pc # "unparsed" =>
        \A j \in Unedited :
            cards[j].name \in CountCards =>
                /\ cards[j].id \notin refs
                /\ cards[j].val = OrigLine(cards[j]).val
                /\ (rpf /\ kind \in SupportedKinds /\ NamesTarget(cards[j]))
                      => "UnsupportedReplacementContext" \in warnings

\* A count card naming a target was read with a ReplaceParamFile.
CountCardWitness ==
    /\ pc = "parsed" /\ rpf /\ kind \in SupportedKinds
    /\ refs # {}
    /\ \E j \in 1..Len(cards) : cards[j].name \in CountCards /\ NamesTarget(cards[j])

\* C5: a read of a text without an unparsable line raises no error when a
\* card names a file that does not exist: the file is skipped with a
\* warning and every card line of the text has its card record.
MissingSubFileNotFatal ==
    ~HasBadLine(text) =>
        /\ pc = "unparsed" => ~err
        /\ pc = "parsed" =>
              /\ { cards[j].id : j \in 1..Len(cards) } = 1..Len(CardLines(text))
              /\ \A j \in 1..Len(cards) : cards[j].name = OrigLine(cards[j]).name
              /\ \A f \in Referenced(cards) \ dbFiles :
                    "MissingReferencedFile" \in warnings

\* A file with two cards was read, one of them naming a missing file and
\* the other a file that exists.
MissingSubFileWitness ==
    /\ pc = "parsed"
    /\ Len(cards) = 2
    /\ Referenced(cards) \ dbFiles # {}
    /\ dbFiles # {}
    /\ "MissingReferencedFile" \in warnings

\* The text that is written when no card is reassigned after the read.
UneditedOut == SerializeCards(ParseCards(text, kind, rpf), kind, wrpf, outName)

\* C6: reassigning the value of a card and writing changes only the line of
\* that card: every other line is the line written without the edit, and a
\* card set to 10 is written as its name followed by 10.
EditChangesOneLine ==
    pc = "serialized" =>
        /\ Len(out) = Len(cards)
        /\ LET uneditedOut == UneditedOut
           IN  \A j \in Unedited : out[j] = uneditedOut[cards[j].id]
        /\ \A j \in 1..Len(cards) :
              (cards[j].id \in edited /\ cards[j].val = Num(10)) =>
                  out[j] = CardLine(OrigLine(cards[j]).name, Num(10))

\* MAP_FREQ 30 was set to 10 in a file with another card, and written.
EditWitness ==
    /\ pc = "serialized"
    /\ Len(cards) = 2
    /\ \E j \in 1..Len(cards) :
          /\ cards[j].id \in edited
          /\ OrigLine(cards[j]) = CardLine("MAP_FREQ", Num(30))
          /\ out[j] = CardLine("MAP_FREQ", Num(10))

\* C7 as stated: read with a ReplaceParamFile stores, for every card of a
\* supported file whose value is the variable name of the target with ID n,
\* the value -n.
MatchStoresNegativeId ==
    (pc # "unparsed" /\ rpf /\ kind \in SupportedKinds) =>
        \A j \in Unedited :
            NamesTarget(cards[j]) =>
                cards[j].val = Num(0 - TargetId(OrigLine(cards[j]).val.s))

\* C7 amended: the same for every card that is not a count of items.
MatchStoresNegativeIdButCounts ==
    (pc # "unparsed" /\ rpf /\ kind \in SupportedKinds) =>
        \A j \in Unedited :
            (NamesTarget(cards[j]) /\ cards[j].name \notin CountCards) =>
                /\ cards[j].val = Num(0 - TargetId(OrigLine(cards[j]).val.s))
                /\ IsNegative(cards[j].val)
                /\ TargetParams[0 - cards[j].val.n] = OrigLine(cards[j]).val.s

\* ROUGHNESS roughness_param was read with target 5 and is stored as -5.
MatchWitness ==
    /\ pc = "parsed" /\ rpf /\ kind \in SupportedKinds
    /\ \E j \in Unedited :
          /\ OrigLine(cards[j]) = CardLine("ROUGHNESS", Word("roughness_param"))
          /\ cards[j].val = Num(-5)

\* C8: write with the name N emits every path whose prefix is the old
\* prefix of the project with the prefix N, and every path as a relative
\* path.
PrefixRewrittenRelative ==
    pc = "serialized" =>
        \A j \in 1..Len(cards) :
            cards[j].val.t = "path" =>
                /\ out[j].val.t = "path"
                /\ out[j].val.dir = ""
                /\ out[j].val.e = cards[j].val.e
                /\ IF cards[j].val.s = ProjectName
                   THEN out[j].val.s = outName
                   ELSE out[j].val.s = cards[j].val.s

\* A file with a path of the project prefix and a path given with a
\* directory was written under a new name.
PrefixWitness ==
    /\ pc = "serialized"
    /\ outName # ProjectName
    /\ \E j \in 1..Len(cards) : cards[j].val.t = "path" /\ cards[j].val.s = ProjectName
    /\ \E j \in 1..Len(cards) : OrigLine(cards[j]).val.t = "path" /\ OrigLine(cards[j]).val.dir # ""

\* C9: write emits one line per card in the order in which the cards were
\* read, and a card that was not reassigned is written with the quoting of
\* its line in the text read.
OrderAndQuotingKept ==
    pc = "serialized" =>
        /\ Len(out) = Len(cards)
        /\ \A j \in 1..Len(cards) : out[j].name = OrigLine(cards[j]).name
        /\ \A i, j \in 1..Len(cards) : i < j => cards[i].id < cards[j].id
        /\ \A j \in Unedited : out[j].val.q = OrigLine(cards[j]).val.q

\* A quoted and an unquoted file name were written, in the order read.
OrderWitness ==
    /\ pc = "serialized"
    /\ Len(out) = 2
    /\ out[1].name # out[2].name
    /\ out[1].val.q # out[2].val.q
    /\ edited = {}

\* C10: write raises no error when a card names a file that is not among
\* the files of the project: that file is skipped with a warning and the
\* other files are written.
WriteSkipsMissingFile ==
    /\ (~HasBadLine(text)) => ~err
    /\ pc = "serialized" =>
          \A f \in Referenced(cards) :
              IF f \in dbFiles
              THEN RenameFile(f, outName) \in written
              ELSE /\ RenameFile(f, outName) \notin written
                   /\ "MissingFileOnWrite" \in warnings

\* A write that skipped one file and wrote another.
WriteSkipWitness ==
    /\ pc = "serialized"
    /\ Referenced(cards) \ dbFiles # {}
    /\ written # {}
    /\ "MissingFileOnWrite" \in warnings

\* --------------------------------------------- properties of read and write
\* The literal value of the card line of c, as a relative path when a path.
Literal(c) == [OrigLine(c).val EXCEPT !.dir = ""]
\* The variable names of the TargetParams table.
TargetNames == { TargetParams[i] : i \in DOMAIN TargetParams }
\* TRUE when the text holds a line that cannot be split into name and value.
TextHasBadLine == \E i \in 1..Len(text) : text[i] = BadLine

\* C11: in a file of a kind without replacement support, read records no
\* reference even with a ReplaceParamFile: every value, a negative number
\* included, is stored as it stands, and write emits the negative number.
UnsupportedKindKeepsLiteral ==
    (kind \in FileKinds \ SupportedKinds /\ pc # "unparsed") =>
        /\ refs = {}
        /\ \A j \in Unedited : cards[j].val = Literal(cards[j])
        /\ pc = "serialized" =>
              \A j \in Unedited :
                  OrigLine(cards[j]).val.t = "num" => out[j].val = OrigLine(cards[j]).val

\* A precipitation file with MAP_FREQ -5 and a target name was read and
\* written with the ReplaceParamFile.
UnsupportedKindWitness ==
    /\ kind = "gag" /\ pc = "serialized" /\ rpf /\ wrpf /\ edited = {}
    /\ \E j \in 1..Len(cards) : cards[j].val = Num(-5)
    /\ \E j \in 1..Len(cards) : cards[j].val = Word("roughness_param")

\* C13: an unparsable line is the only anomaly that makes read fail: read
\* raises an error exactly for a text with such a line, and a missing file,
\* an unknown replacement name and a replacement on a count card leave a
\* warning and a file that is read.
OnlyBadLineIsFatal ==
    /\ err => (TextHasBadLine /\ pc = "unparsed")
    /\ pc # "unparsed" => ~TextHasBadLine
    /\ warnings # {} => (~err /\ pc # "unparsed")

\* A file with two of the anomalies was read.
NonFatalWitness ==
    /\ pc = "parsed"
    /\ ~err
    /\ "UnresolvedReplacementName" \in warnings
    /\ \/ "MissingReferencedFile" \in warnings
       \/ "UnsupportedReplacementContext" \in warnings

\* C17: read with a ReplaceParamFile keeps a word that is the name of no
\* target as the literal text and logs a warning; no error is raised and the
\* cards after it are read.
UnknownNameKeptLiteral ==
    (pc # "unparsed" /\ rpf) =>
        /\ ~err
        /\ \A j \in Unedited :
              (OrigLine(cards[j]).val.t = "word"
                 /\ OrigLine(cards[j]).val.s \notin TargetNames) =>
                  /\ cards[j].val = OrigLine(cards[j]).val
                  /\ cards[j].id \notin refs
                  /\ (kind \in SupportedKinds /\ cards[j].name \notin CountCards)
                        => "UnresolvedReplacementName" \in warnings
        /\ pc = "parsed" => Len(cards) = Len(CardLines(text))

\* ROUGHNESS zz_param was read with a ReplaceParamFile, and the card after it.
UnknownNameWitness ==
    /\ pc = "parsed" /\ rpf /\ kind \in SupportedKinds /\ edited = {}
    /\ Len(cards) = 2
    /\ cards[1].val = Word("zz_param")
    /\ "UnresolvedReplacementName" \in warnings

\* C18: write without a ReplaceParamFile emits every negative stored value
\* as the negative integer itself, with no error and no warning about it.
NoTablePassthrough ==
    (pc = "serialized" /\ ~wrpf) =>
        /\ ~err
        /\ "UnresolvedReplacementReference" \notin warnings
        /\ \A j \in 1..Len(cards) :
              IsNegative(cards[j].val) => out[j] = CardLine(cards[j].name, cards[j].val)

\* A card replaced by target 5 at read was written without a ReplaceParamFile.
NoTableWitness ==
    /\ pc = "serialized" /\ ~wrpf /\ rpf
    /\ \E j \in 1..Len(cards) : cards[j].id \in refs /\ out[j].val = Num(-5)

\* C19: write with a ReplaceParamFile emits a negative value that is the ID
\* of no target as the number itself, with a warning; no error is raised
\* and the cards after it are written.
UnresolvedReferenceWrittenRaw ==
    (pc = "serialized" /\ wrpf) =>
        /\ ~err
        /\ Len(out) = Len(cards)
        /\ \A j \in 1..Len(cards) :
              (IsNegative(cards[j].val) /\ (0 - cards[j].val.n) \notin DOMAIN TargetParams) =>
                  /\ out[j] = CardLine(cards[j].name, cards[j].val)
                  /\ (kind \in SupportedKinds /\ cards[j].name \notin CountCards)
                        => "UnresolvedReplacementReference" \in warnings

\* MAP_FREQ -3 (no target 3) and the card after it were written.
UnresolvedReferenceWitness ==
    /\ pc = "serialized" /\ wrpf /\ kind \in SupportedKinds
    /\ Len(out) = 2
    /\ cards[1].val = Num(-3)
    /\ out[1].val = Num(-3)
    /\ "UnresolvedReplacementReference" \in warnings

\* C20: read without a ReplaceParamFile replaces nothing: every value is
\* stored as its literal text, also the variable name of a target.
NoTableNoSubstitution ==
    (pc # "unparsed" /\ ~rpf) =>
        /\ refs = {}
        /\ \A j \in Unedited : cards[j].val = Literal(cards[j])

\* ROUGHNESS roughness_param of a supported file was read without a
\* ReplaceParamFile.
NoSubstitutionWitness ==
    /\ pc = "parsed" /\ ~rpf /\ kind \in SupportedKinds
    /\ \E j \in Unedited : cards[j].val = Word("roughness_param")

\* ------------------------------------------ properties of the project level
\* TRUE when the project file text holds both replacement cards.
TextHasReplaceCards ==
    /\ \E i \in 1..Len(text) : text[i].name = "REPLACE_PARAMS"
    /\ \E i \in 1..Len(text) : text[i].name = "REPLACE_VALS"

SridPriority ==
    spatial.on =>
        /\ ~err
        /\ pc # "unparsed"
        /\ spatial.given # 0 => spatial.srid = spatial.given /\ ~spatial.warned
        /\ (spatial.given = 0 /\ spatial.pro /\ spatial.lookup # 0) =>
              spatial.srid = spatial.lookup /\ ~spatial.warned
        /\ (spatial.given = 0 /\ (~spatial.pro \/ spatial.lookup = 0)) =>
              spatial.srid = 4236 /\ spatial.warned

\* A project was read with spatial objects, no ID passed and no projection
\* file: the default ID is used and the warning is logged.
SridDefaultWitness ==
    /\ spatial.on /\ spatial.given = 0 /\ ~spatial.pro
    /\ spatial.srid = 4236 /\ spatial.warned
    /\ pc = "parsed" /\ ~err

ProjectFilesWritten ==
    (kind = "prj" /\ pc = "serialized") =>
        /\ \A f \in dbFiles :
              IF f[1] = ProjectName THEN << outName, f[2] >> \in written
                                    ELSE f \in written
        /\ \A g \in written : \E f \in dbFiles : g[2] = f[2]
        /\ \A g \in written : g[1] # ProjectName \/ outName = ProjectName

\* A project with a file named after the project and a file with another
\* name was read and written under a new name.
ProjectFilesWrittenWitness ==
    /\ kind = "prj" /\ pc = "serialized" /\ outName = "mymodel"
    /\ << "parkcity", "msk" >> \in dbFiles
    /\ << "storm", "gag" >> \in dbFiles
    /\ << "mymodel", "msk" >> \in written
    /\ << "storm", "gag" >> \in written

\* ------------------------------------------------ properties of the lines
\* C21: the split of a card line gives its leading token as the card name
\* and all that follows the separating spaces as the value, with its quote
\* characters and inner spaces as they stand; a line with a name alone
\* gives a card without a value.
SplitKeepsRemainder ==
    (split # NoSplit /\ raw # << >> /\ raw[1] \in Tokens) =>
        /\ split.lt = "card"
        /\ split.name = raw[1]
        /\ split.none <=> Len(raw) = 1
        /\ Len(raw) = 1 => split.value = << >>
        /\ Len(raw) > 1 => << raw[1], raw[2] >> \o split.value = raw

\* The line  WMS WMS  9.1  was split: the value holds both tokens and the
\* two spaces between them.
SplitWitness ==
    /\ raw = << "WMS", " ", "WMS", "  ", "9.1" >>
    /\ split.name = "WMS"
    /\ split.value = << "WMS", "  ", "9.1" >>

\* The lines of the text that are neither blank nor a comment, in order.
KeptLines == SelectSeq(text, LAMBDA l : l \notin {BlankLine, CommentLine})

\* C22: read gives exactly one card for each line that is neither blank
\* nor a comment, in the order of the file, and no card for a blank line or
\* a comment line.
OneCardPerLine ==
    pc # "unparsed" =>
        LET kept == KeptLines
        IN  /\ Len(cards) = Len(kept)
            /\ \A j \in 1..Len(cards) :
                  /\ cards[j].id = j
                  /\ cards[j].name = kept[j].name
                  /\ (j \notin edited /\ kept[j].val.t = "num") =>
                        cards[j].val = kept[j].val

\* A text with a comment line followed by a card line was read: one card.
OneCardWitness ==
    /\ pc = "parsed"
    /\ Len(text) = 2
    /\ text[1] = CommentLine
    /\ text[2] = CardLine("MAP_FREQ", Num(30))
    /\ Len(cards) = 1
    /\ cards[1].name = "MAP_FREQ"

\* C23: the read of a project file stores a line whose name begins with
\* '#' as a card, at its position in the file, with the '#' in the name and
\* the quoted file name as the value.
HashLinesAreCards ==
    (kind = "prj" /\ pc # "unparsed") =>
        /\ Len(cards) = Len(text)
        /\ \A i \in 1..Len(text) :
              text[i].name \in HashCards =>
                  /\ cards[i].name = text[i].name
                  /\ cards[i].val = text[i].val
                  /\ cards[i].val.q

\* #LandSoil "parkcity.lsf" was read between two other cards.
HashLineWitness ==
    /\ kind = "prj" /\ pc = "parsed"
    /\ Len(cards) = 3
    /\ cards[1].name = "WATERSHED_MASK"
    /\ cards[2] = [id |-> 2, name |-> "#LandSoil",
                   val |-> Path(TRUE, "", "parkcity", "lsf")]
    /\ cards[3].name = "ROUGHNESS"

CardHasOneParent ==
    /\ \A i \in 1..Len(table) : table[i].projectFileID \in ProjectFileIds
    /\ \A i, j \in 1..Len(table) : i # j => table[i].key # table[j].key
    /\ got.found => got.projectFileID = got.file
    /\ pc # "unparsed" =>
          LET K == { i \in 1..Len(table) : table[i].projectFileID = ThisFile }
          IN  /\ Cardinality(K) = Len(cards)
              /\ \A i \in K : \E j \in 1..Len(cards) :
                    /\ cards[j].id = table[i].cardId
                    /\ cards[j].name = table[i].name
                    /\ Cardinality({ h \in K : h <= i }) = j

\* getCard("MAP_FREQ") on the project file read returned its own card, not
\* the MAP_FREQ card of the project read earlier.
CardParentWitness ==
    /\ got.found /\ got.file = ThisFile /\ got.name = "MAP_FREQ"
    /\ got.projectFileID = ThisFile
    /\ got.key > 2
    /\ \E i \in 1..Len(table) :
          table[i].projectFileID = OtherFile /\ table[i].name = "MAP_FREQ"

\* The card records as they were read.
CardsRead == ParseCards(text, kind, rpf)

\* C26: deleting a card removes that card alone from the collection of its
\* project file: the other cards keep their values and their order, and a
\* write after it has a line for each of them and none for the deleted card.
DeleteRemovesOneCard ==
    pc # "unparsed" =>
        /\ { cards[j].id : j \in 1..Len(cards) } = (1..Len(CardsRead)) \ deleted
        /\ Len(cards) = Len(CardsRead) - Cardinality(deleted)
        /\ \A j \in 1..Len(cards) : cards[j] = CardsRead[cards[j].id]
        /\ \A i, j \in 1..Len(cards) : i < j => cards[i].id < cards[j].id
        /\ pc = "serialized" =>
              /\ Len(out) = Len(cards)
              /\ \A j \in 1..Len(cards) : out[j].name = cards[j].name

\* The second of three cards was deleted and the file was written: two
\* lines, for the first and the third card.
DeleteWitness ==
    /\ pc = "serialized"
    /\ deleted = {2}
    /\ Len(CardsRead) = 3
    /\ Len(out) = 2
    /\ cards[1].id = 1 /\ cards[2].id = 3
    /\ CardsRead[1].name = CardsRead[2].name

LifecycleStates == {"unparsed", "parsed", "serialized"}

RenameChangesOnlyPrefix ==
    pc = "serialized" =>
        \A j \in 1..Len(cards) :
            /\ (cards[j].val.t = "path" /\ cards[j].val.s # ProjectName) =>
                  out[j] = CardLine(cards[j].name, cards[j].val)
            /\ cards[j].val.t # "path" =>
                  out[j] = CardLine(cards[j].name,
                                    WriteValue(kind, cards[j].name, cards[j].val, wrpf))
            /\ (cards[j].val.t # "path" \/ cards[j].val.s # ProjectName) =>
                  out[j] = WriteLine(kind, cards[j], wrpf, ProjectName)

\* A file name with another prefix was written under a new name, next to a
\* file name with the old prefix.
RenameFrameWitness ==
    /\ pc = "serialized" /\ outName = "mymodel"
    /\ Len(cards) = 2
    /\ cards[1].val.s = "parkcity" /\ out[1].val.s = "mymodel"
    /\ cards[2].val.s = "storm" /\ out[2].val.s = "storm"

\* C30: in a supported file, a negative number of the text that was read
\* and written with the same ReplaceParamFile is written as that number,
\* not as the variable name of a target.
LiteralNegativeSurvives ==
    (pc = "serialized" /\ rpf /\ wrpf /\ kind \in SupportedKinds) =>
        \A j \in Unedited :
            (OrigLine(cards[j]).val.t = "num" /\ OrigLine(cards[j]).val.n < 0) =>
                out[j].val = OrigLine(cards[j]).val
====